---------------------------- MODULE Spec2Model ----------------------------
(***************************************************************************)
(* A model of server.js, the meal-planner backend: five Express request    *)
(* handlers in front of a text-generation service, a document store        *)
(* (collections "favorites" and "cookbooks") and an object store.          *)
(*                                                                         *)
(* Every handler is an async function.  It runs without interruption up to *)
(* its next `await`; there the external service performs the call (one    *)
(* action of the service) and later the handler is resumed (one action of  *)
(* the handler).  Any number of requests may be between two such steps at  *)
(* the same time, so the actions of different requests interleave freely.  *)
(***************************************************************************)
EXTENDS Integers, Sequences, FiniteSets

VARIABLES
    uploads,        \* POST /upload-cookbook requests, in order of arrival
    saves,          \* POST /favorites requests, in order of arrival
    lists,          \* GET /favorites and GET /cookbooks requests
    gens,           \* POST /generate-plan requests
    favorites,      \* the documents of collection "favorites"
    cookbooks,      \* the documents of collection "cookbooks"
    blobs,          \* the objects of the object store
    clock,          \* the wall clock, in epoch milliseconds (Date.now())
    rejectAtLimit   \* whether the installed multipart parser rejects a file
                    \* of exactly limits.fileSize bytes (fixed per build)

vars == <<uploads, saves, lists, gens, favorites, cookbooks, blobs, clock,
          rejectAtLimit>>

---------------------------------------------------------------------------
(* Bounds of the model.                                                    *)

\* how many POST /upload-cookbook requests SpecUpload lets arrive
MaxUploads == 2
\* how many /favorites requests (POST and GET) SpecFavorites lets arrive
MaxFavReqs == 3
\* how many POST /generate-plan requests SpecGenerate lets arrive
MaxGens == 2
\* how many requests, over all five endpoints, Spec lets arrive
MaxReqs == 2
\* how many milliseconds the wall clock advances
MaxClock == 1

---------------------------------------------------------------------------
(* Values.                                                                 *)

\* The error objects an external call may throw.
Errors == {"unavailable", "permission-denied"}

\* No error was caught / no value is present.
None == "none"

\* What a request holds before it is answered.
NoResponse == [status |-> 0]

\* res.status(code).json({ success: false, message })
Failure(code, message) ==
    [status |-> code, json |-> TRUE, success |-> FALSE, message |-> message]

\* Express's default error handler, which answers when a middleware passes an
\* error to next(): the error object has no status, so the status is 500, and
\* the body is not the handlers' JSON envelope.
DefaultErrorHandler(code) ==
    [status |-> 500, json |-> FALSE, error |-> code]

\* A request has been answered.
Answered(r) == r.pc = "done"

---------------------------------------------------------------------------
(* POST /upload-cookbook: the multipart layer.                             *)

\* limits: { fileSize: 100 * 1024 * 1024 }
FileSizeLimit == 100 * 1024 * 1024

MiB == 1024 * 1024

\* The field name upload.single() accepts.
FieldName == "cookbookFile"

\* A multipart body without a file part; also req.file when it is undefined.
NoFile ==
    [fieldname |-> None, originalname |-> None, mimetype |-> None,
     buffer |-> None, size |-> 0]

FilePart(fieldname, originalname, buffer, size) ==
    [fieldname |-> fieldname, originalname |-> originalname,
     mimetype |-> "application/pdf", buffer |-> buffer, size |-> size]

\* The multipart bodies the clients send: no file part; a 99 MiB file and a
\* file of exactly the limit under the same name; a 101 MiB file; a file
\* under a field name the route does not accept.
UploadBodies ==
    {NoFile,
     FilePart(FieldName, "a.pdf", "bytes-x", 99 * MiB),
     FilePart(FieldName, "a.pdf", "bytes-y", FileSizeLimit),
     FilePart(FieldName, "b.pdf", "bytes-z", 101 * MiB),
     FilePart("file", "a.pdf", "bytes-x", 99 * MiB)}

\* A faulty variant, which C10 must tell from the code:
\* the limit is not applied.
FileTooLargeNoLimit(size, atLimit) == FALSE

\* The parser stops a file that exceeds limits.fileSize; whether a file of
\* exactly limits.fileSize bytes counts as exceeding it depends on the
\* installed parser (atLimit).
FileTooLarge(size, atLimit) ==
    size > FileSizeLimit \/ (atLimit /\ size = FileSizeLimit)

\* upload.single('cookbookFile'): what the multipart layer makes of a body.
\* "file": req.file is set; "nofile": req.file is left undefined; otherwise
\* the MulterError code passed to next(), and the handler is not called.
Multer(part, atLimit) ==
    IF part = NoFile THEN "nofile"
    ELSE IF part.fieldname # FieldName THEN "LIMIT_UNEXPECTED_FILE"
    ELSE IF FileTooLarge(part.size, atLimit) THEN "LIMIT_FILE_SIZE"
    ELSE "file"

---------------------------------------------------------------------------
(* POST /upload-cookbook: the handler.                                     *)

\* A faulty variant, which C5 must tell from the code:
\* the key also depends on the file's content.
StorageKeyByContent(now, file) ==
    <<"cookbooks", now, file.originalname, file.buffer>>

\* `cookbooks/${Date.now()}_${file.originalname}`: the timestamp is all
\* digits and ends at the first "_", so the path determines both parts and
\* the pair stands for the string.
StorageKey(now, file) == <<"cookbooks", now, file.originalname>>

\* A faulty variant, which C4 must tell from the code:
\* the record names the file, not the object's path.
CookbookDocByName(id, file, fullPath, now) ==
    [id |-> id,
     data |-> [name |-> file.originalname,
               storagePath |-> <<"cookbooks", 0, file.originalname>>,
               uploadedAt |-> now]]

\* The document addDoc(collection(db, "cookbooks"), {...}) writes; the store
\* assigns the id.
CookbookDoc(id, file, fullPath, now) ==
    [id |-> id,
     data |-> [name |-> file.originalname, storagePath |-> fullPath,
               uploadedAt |-> now]]

\* The object uploadBytes(storageRef, file.buffer, {contentType}) writes.
Blob(fullPath, file) ==
    [fullPath |-> fullPath, bytes |-> file.buffer,
     contentType |-> file.mimetype]

\* The object store holds one object per path: a write replaces it.
PutObject(objects, object) ==
    {o \in objects : o.fullPath # object.fullPath} \cup {object}

\* The id the document store generates for a new document: unique.
AutoId(coll, i) == <<coll, i>>

\* A faulty variant, which C7 must tell from the code:
\* a missing file is not noticed.
NoFileUploadedNever(file) == FALSE

\* if (!req.file)
NoFileUploaded(file) == file = NoFile

\* A faulty variant, which C6 must tell from the code:
\* the catch block answers as if the upload had succeeded.
UploadCatchSuccess(u, error) ==
    [u EXCEPT !.pc = "done", !.logged = error,
              !.resp = [status |-> 200, json |-> TRUE, success |-> TRUE,
                        message |-> "Cookbook uploaded successfully."]]

\* catch (error) { console.error(...); res.status(500).json(...) }
UploadCatch(u, error) ==
    [u EXCEPT !.pc = "done", !.logged = error,
              !.resp = Failure(500, "Failed to upload cookbook.")]

\* A faulty variant, which C1 must tell from the code:
\* the handler does not wait for the outcome of uploadBytes.
AfterUploadBytesNoAwait(u, now) ==
    [u EXCEPT !.pc = "addDoc", !.result = None, !.uploadedAt = now]

\* The handler resumes after `await uploadBytes(...)`: a rejection lands in
\* the catch block, otherwise addDoc is called (its uploadedAt: new Date()).
AfterUploadBytes(u, now) ==
    IF u.result # "ok" THEN UploadCatch(u, u.result)
    ELSE [u EXCEPT !.pc = "addDoc", !.result = None, !.uploadedAt = now]

\* The handler resumes after `await addDoc(...)`.
AfterAddCookbook(u) ==
    IF u.result # "ok" THEN UploadCatch(u, u.result)
    ELSE [u EXCEPT !.pc = "done", !.result = None,
                   !.resp = [status |-> 200, json |-> TRUE, success |-> TRUE,
                             message |-> "Cookbook uploaded successfully."]]

\* A request as it arrives; the fields after `part` are the handler's locals
\* (file, now: what Date.now() returned, storagePath, uploadedAt), the outcome of the call it awaits
\* (result), what it logged and answered, and a record of the writes the
\* stores performed for it (blobWrites, docWrites).
NewUpload(part) ==
    [part |-> part, handler |-> FALSE, pc |-> "arrived", file |-> NoFile,
     now |-> 0, storagePath |-> <<>>, uploadedAt |-> 0, result |-> None,
     logged |-> None, resp |-> NoResponse, blobWrites |-> 0, docWrites |-> 0]

\* The request up to the handler's first await.
UploadHandler(part, outcome, now) ==
    LET u == NewUpload(part) IN
    IF outcome \notin {"file", "nofile"}
    THEN [u EXCEPT !.pc = "done", !.resp = DefaultErrorHandler(outcome)]
    ELSE LET file == IF outcome = "file" THEN part ELSE NoFile IN
         IF NoFileUploaded(file)
         THEN [u EXCEPT !.handler = TRUE, !.pc = "done",
                        !.resp = Failure(400, "No file uploaded.")]
         ELSE [u EXCEPT !.handler = TRUE, !.pc = "uploadBytes", !.file = file,
                        !.now = now, !.storagePath = StorageKey(now, file)]

\* A POST /upload-cookbook request arrives and runs to its first await.
UploadCookbook(max, arrived) ==
    /\ arrived < max
    /\ \E part \in UploadBodies :
          uploads' = Append(uploads,
                            UploadHandler(part, Multer(part, rejectAtLimit), clock))
    /\ UNCHANGED <<saves, lists, gens, favorites, cookbooks, blobs, clock,
                   rejectAtLimit>>

\* The object store performs uploadBytes: the object is written, or the call
\* fails and nothing is written.
StoreUploadBytes(i) ==
    /\ uploads[i].pc = "uploadBytes"
    /\ \/ /\ blobs' = PutObject(blobs, Blob(uploads[i].storagePath, uploads[i].file))
          /\ uploads' = [uploads EXCEPT ![i].pc = "afterUploadBytes",
                                        ![i].result = "ok",
                                        ![i].blobWrites = @ + 1]
       \/ /\ \E e \in Errors :
                uploads' = [uploads EXCEPT ![i].pc = "afterUploadBytes",
                                           ![i].result = e]
          /\ UNCHANGED blobs
    /\ UNCHANGED <<saves, lists, gens, favorites, cookbooks, clock, rejectAtLimit>>

ResumeAfterUploadBytes(i) ==
    /\ uploads[i].pc = "afterUploadBytes"
    /\ uploads' = [uploads EXCEPT ![i] = AfterUploadBytes(uploads[i], clock)]
    /\ UNCHANGED <<saves, lists, gens, favorites, cookbooks, blobs, clock,
                   rejectAtLimit>>

\* The document store performs addDoc on "cookbooks": the document is
\* written, or the call fails and nothing is written.
StoreAddCookbook(i) ==
    /\ uploads[i].pc = "addDoc"
    /\ \/ /\ cookbooks' = cookbooks \cup
                 {CookbookDoc(AutoId("cookbooks", i), uploads[i].file,
                              uploads[i].storagePath, uploads[i].uploadedAt)}
          /\ uploads' = [uploads EXCEPT ![i].pc = "afterAddDoc",
                                        ![i].result = "ok",
                                        ![i].docWrites = @ + 1]
       \/ /\ \E e \in Errors :
                uploads' = [uploads EXCEPT ![i].pc = "afterAddDoc",
                                           ![i].result = e]
          /\ UNCHANGED cookbooks
    /\ UNCHANGED <<saves, lists, gens, favorites, blobs, clock, rejectAtLimit>>

ResumeAfterAddCookbook(i) ==
    /\ uploads[i].pc = "afterAddDoc"
    /\ uploads' = [uploads EXCEPT ![i] = AfterAddCookbook(uploads[i])]
    /\ UNCHANGED <<saves, lists, gens, favorites, cookbooks, blobs, clock,
                   rejectAtLimit>>

\* Some handler has read the clock at t: an upload for its key or its
\* uploadedAt, a save for its createdAt.
ClockRead(t) ==
    \/ \E i \in DOMAIN uploads :
          /\ uploads[i].storagePath # <<>>
          /\ t \in {uploads[i].now, uploads[i].uploadedAt}
    \/ \E i \in DOMAIN saves :
          saves[i].resp.status # 400 /\ saves[i].createdAt = t

\* A millisecond passes.  (A millisecond in which no handler reads the clock
\* changes nothing but the numbers, so the clock advances only past a value
\* that some handler has read.)
Tick ==
    /\ clock < MaxClock
    /\ ClockRead(clock)
    /\ clock' = clock + 1
    /\ UNCHANGED <<uploads, saves, lists, gens, favorites, cookbooks, blobs,
                   rejectAtLimit>>

Init ==
    /\ uploads = <<>>
    /\ saves = <<>>
    /\ lists = <<>>
    /\ gens = <<>>
    /\ favorites = {}
    /\ cookbooks = {}
    /\ blobs = {}
    /\ clock = 0
    /\ rejectAtLimit \in BOOLEAN

\* The start of a run in which no upload arrives: the multipart parser plays
\* no part, so one build stands for both.
InitNoUpload == Init /\ ~rejectAtLimit

UploadSteps ==
    \E i \in DOMAIN uploads :
        \/ StoreUploadBytes(i)
        \/ ResumeAfterUploadBytes(i)
        \/ StoreAddCookbook(i)
        \/ ResumeAfterAddCookbook(i)

NextUpload == UploadCookbook(MaxUploads, Len(uploads)) \/ UploadSteps \/ Tick

\* Only POST /upload-cookbook requests arrive.
SpecUpload == Init /\ [][NextUpload]_vars

---------------------------------------------------------------------------
(* JSON values of a request body, as the handlers see them.                *)

Undefined == <<"undefined">>
Null == <<"null">>
Str(x) == <<"string", x>>
Num(n) == <<"number", n>>
Bool(b) == <<"boolean", b>>

\* A faulty variant, which C2 must tell from the code:
\* only a missing field counts.
NotOnlyUndefined(v) == v = Undefined

\* JavaScript's !v: true of undefined, null, false, 0 and "".
Not(v) ==
    CASE v[1] = "undefined" -> TRUE
      [] v[1] = "null" -> TRUE
      [] v[1] = "boolean" -> ~v[2]
      [] v[1] = "number" -> v[2] = 0
      [] v[1] = "string" -> v[2] = ""

\* JavaScript's `${v}` for the values the prompt is built from.
Interpolate(v) ==
    CASE v[1] = "undefined" -> "undefined"
      [] v[1] = "null" -> "null"
      [] v[1] = "string" -> v[2]

---------------------------------------------------------------------------
(* POST /favorites.                                                        *)

\* The values of mealPlanMarkdown the clients send (Undefined: no such
\* field in the body).
MealPlanMarkdowns ==
    {Undefined, Null, Str(""), Str("# Plan A"), Str("0"), Num(0), Bool(FALSE)}

\* The document addDoc(collection(db, "favorites"), {createdAt, content})
\* writes; the store assigns the id.
FavoriteDoc(id, createdAt, mealPlanMarkdown) ==
    [id |-> id, data |-> [createdAt |-> createdAt, content |-> mealPlanMarkdown]]

\* catch (error) { console.error(...); res.status(500).json(...) }
SaveCatch(r, error) ==
    [r EXCEPT !.pc = "done", !.logged = error,
              !.resp = Failure(500, "Failed to save favorite.")]

\* A request as it arrives: the body's field, the handler's position, the
\* createdAt it passed to addDoc, the outcome of the call it awaits (result,
\* and docRef.id), what it logged and answered, and a record of the writes
\* the store performed for it.
NewSave(mealPlanMarkdown) ==
    [mealPlanMarkdown |-> mealPlanMarkdown, handler |-> TRUE, pc |-> "arrived",
     createdAt |-> 0, result |-> None, id |-> <<>>, logged |-> None,
     resp |-> NoResponse, docWrites |-> 0]

\* The handler up to its first await.
SaveHandler(mealPlanMarkdown, now) ==
    LET r == NewSave(mealPlanMarkdown) IN
    IF Not(mealPlanMarkdown)
    THEN [r EXCEPT !.pc = "done",
                   !.resp = Failure(400, "No meal plan content provided.")]
    ELSE [r EXCEPT !.pc = "addDoc", !.createdAt = now]

\* The handler resumes after `await addDoc(...)`.
AfterAddFavorite(r) ==
    IF r.result # "ok" THEN SaveCatch(r, r.result)
    ELSE [r EXCEPT !.pc = "done", !.result = None,
                   !.resp = [status |-> 200, json |-> TRUE, success |-> TRUE,
                             id |-> r.id]]

\* A POST /favorites request arrives and runs to its first await.
PostFavorites(max, arrived) ==
    /\ arrived < max
    /\ \E v \in MealPlanMarkdowns : saves' = Append(saves, SaveHandler(v, clock))
    /\ UNCHANGED <<uploads, lists, gens, favorites, cookbooks, blobs, clock,
                   rejectAtLimit>>

\* The document store performs addDoc on "favorites": the document is
\* written, or the call fails and nothing is written.
StoreAddFavorite(i) ==
    /\ saves[i].pc = "addDoc"
    /\ \/ /\ favorites' = favorites \cup
                 {FavoriteDoc(AutoId("favorites", i), saves[i].createdAt,
                              saves[i].mealPlanMarkdown)}
          /\ saves' = [saves EXCEPT ![i].pc = "afterAddDoc", ![i].result = "ok",
                                    ![i].id = AutoId("favorites", i),
                                    ![i].docWrites = @ + 1]
       \/ /\ \E e \in Errors :
                saves' = [saves EXCEPT ![i].pc = "afterAddDoc", ![i].result = e]
          /\ UNCHANGED favorites
    /\ UNCHANGED <<uploads, lists, gens, cookbooks, blobs, clock, rejectAtLimit>>

ResumeAfterAddFavorite(i) ==
    /\ saves[i].pc = "afterAddDoc"
    /\ saves' = [saves EXCEPT ![i] = AfterAddFavorite(saves[i])]
    /\ UNCHANGED <<uploads, lists, gens, favorites, cookbooks, blobs, clock,
                   rejectAtLimit>>

---------------------------------------------------------------------------
(* GET /favorites and GET /cookbooks.                                      *)

\* A faulty variant, which C3 must tell from the code:
\* only the first document is returned.
ListOfFirst(docs) ==
    IF docs = {} THEN {} ELSE {CHOOSE d \in docs : TRUE}

\* snapshot.docs.map(doc => ({ id: doc.id, ...doc.data() })): the documents'
\* fields do not include an "id", so the spread leaves id alone.
ListOf(docs) == {[id |-> d.id, data |-> d.data] : d \in docs}

FetchMessage(col) ==
    IF col = "favorites" THEN "Failed to fetch favorites."
    ELSE "Failed to fetch cookbooks."

\* catch (error) { console.error(...); res.status(500).json(...) }
ListCatch(r, error) ==
    [r EXCEPT !.pc = "done", !.logged = error,
              !.resp = Failure(500, FetchMessage(r.col))]

\* A request as it arrives: the collection it lists, the handler's position,
\* the snapshot getDocs returned, what it logged and answered; and, noted
\* when the store performed getDocs: the (id, content) pairs of the
\* POST /favorites requests answered with success by then (saved), and
\* whether no POST /favorites request was then waiting for its answer (quiet).
NewList(col) ==
    [col |-> col, handler |-> TRUE, pc |-> "getDocs", snapshot |-> {},
     result |-> None, logged |-> None, resp |-> NoResponse,
     saved |-> {}, quiet |-> FALSE]

\* The handler resumes after `await getDocs(...)`.
AfterGetDocs(r) ==
    IF r.result # "ok" THEN ListCatch(r, r.result)
    ELSE [r EXCEPT !.pc = "done", !.result = None,
                   !.resp = [status |-> 200, json |-> TRUE, success |-> TRUE,
                             list |-> ListOf(r.snapshot)]]

\* The (id, content) pairs of the saves answered with success.
Saved ==
    {<<saves[i].resp.id, saves[i].mealPlanMarkdown>> :
        i \in {j \in DOMAIN saves : Answered(saves[j]) /\ saves[j].resp.status = 200}}

\* A GET request arrives and runs to its await.
GetList(col, max, arrived) ==
    /\ arrived < max
    /\ lists' = Append(lists, NewList(col))
    /\ UNCHANGED <<uploads, saves, gens, favorites, cookbooks, blobs, clock,
                   rejectAtLimit>>

\* The document store performs getDocs: it returns every document of the
\* collection, or the call fails.
StoreGetDocs(k) ==
    /\ lists[k].pc = "getDocs"
    /\ \/ lists' = [lists EXCEPT
                      ![k].pc = "afterGetDocs", ![k].result = "ok",
                      ![k].snapshot = IF lists[k].col = "favorites"
                                      THEN favorites ELSE cookbooks,
                      ![k].saved = Saved,
                      ![k].quiet = \A i \in DOMAIN saves : Answered(saves[i])]
       \/ \E e \in Errors :
             lists' = [lists EXCEPT ![k].pc = "afterGetDocs", ![k].result = e]
    /\ UNCHANGED <<uploads, saves, gens, favorites, cookbooks, blobs, clock,
                   rejectAtLimit>>

ResumeAfterGetDocs(k) ==
    /\ lists[k].pc = "afterGetDocs"
    /\ lists' = [lists EXCEPT ![k] = AfterGetDocs(lists[k])]
    /\ UNCHANGED <<uploads, saves, gens, favorites, cookbooks, blobs, clock,
                   rejectAtLimit>>

SaveSteps ==
    \E i \in DOMAIN saves : StoreAddFavorite(i) \/ ResumeAfterAddFavorite(i)

ListSteps ==
    \E k \in DOMAIN lists : StoreGetDocs(k) \/ ResumeAfterGetDocs(k)

NextFavorites ==
    \/ PostFavorites(MaxFavReqs, Len(saves) + Len(lists))
    \/ GetList("favorites", MaxFavReqs, Len(saves) + Len(lists))
    \/ SaveSteps
    \/ ListSteps
    \/ Tick

\* Only POST /favorites and GET /favorites requests arrive.
SpecFavorites == InitNoUpload /\ [][NextFavorites]_vars

---------------------------------------------------------------------------
(* POST /generate-plan.                                                    *)

MealPlanRequest(template, cookbook, dietaryNeeds, specialRequests) ==
    [template |-> template, cookbook |-> cookbook,
     dietaryNeeds |-> dietaryNeeds, specialRequests |-> specialRequests]

\* The bodies the clients send: no field at all, four empty strings, and a
\* body with only some of the fields.
GenerateBodies ==
    {MealPlanRequest(Undefined, Undefined, Undefined, Undefined),
     MealPlanRequest(Str(""), Str(""), Str(""), Str("")),
     MealPlanRequest(Str("# Week"), Str("Joy of Cooking"), Str("vegan"),
                     Undefined)}

\* The texts the generation service produces.
Texts == {"# Plan A", ""}

\* The prompt: fixed wording around the four interpolated fields, in the
\* order template, cookbook, dietaryNeeds, specialRequests.
Prompt(body) ==
    <<"Using the following meal plan as a template:", Interpolate(body.template),
      "1. Cookbook:", Interpolate(body.cookbook),
      "2. Dietary Needs:", Interpolate(body.dietaryNeeds),
      "3. Special Requests:", Interpolate(body.specialRequests)>>

\* A faulty variant, which C9 must tell from the code:
\* the catch block reports the error it caught.
GenerateCatchLeaks(g, error) ==
    [g EXCEPT !.pc = "done", !.logged = error, !.resp = Failure(500, error)]

\* catch (error) { console.error(...); res.status(500).json(...) }
GenerateCatch(g, error) ==
    [g EXCEPT !.pc = "done", !.logged = error,
              !.resp = Failure(500, "Failed to generate meal plan.")]

\* A request as it arrives: the body, the prompt built from it, the
\* handler's position, the outcome of the call it awaits (result: "ok" with
\* the text, "blocked" with the error response.text() throws, or the error
\* generateContent threw), what it logged and answered, and how many times
\* the service was invoked for it.
NewGenerate(body) ==
    [body |-> body, handler |-> TRUE, prompt |-> Prompt(body),
     pc |-> "generateContent", result |-> None, text |-> None,
     error |-> None, logged |-> None, resp |-> NoResponse, calls |-> 0]

\* A faulty variant, which C8 must tell from the code:
\* a body without a template is refused.
GenerateHandlerValidating(body) ==
    IF body.template = Undefined
    THEN [NewGenerate(body) EXCEPT !.pc = "done",
                                   !.resp = Failure(400, "No template provided.")]
    ELSE NewGenerate(body)

\* The handler up to its first await: no field is checked.
GenerateHandler(body) == NewGenerate(body)

\* The handler resumes after `await model.generateContent(prompt)`: a
\* rejection lands in the catch block; otherwise response.text() returns the
\* text or throws, which lands in the catch block too.
AfterGenerateContent(g) ==
    IF g.result = "ok"
    THEN [g EXCEPT !.pc = "done",
                   !.resp = [status |-> 200, json |-> TRUE, success |-> TRUE,
                             mealPlan |-> g.text]]
    ELSE GenerateCatch(g, g.error)

\* A POST /generate-plan request arrives and runs to its first await.
PostGeneratePlan(max, arrived) ==
    /\ arrived < max
    /\ \E body \in GenerateBodies : gens' = Append(gens, GenerateHandler(body))
    /\ UNCHANGED <<uploads, saves, lists, favorites, cookbooks, blobs, clock,
                   rejectAtLimit>>

\* The generation service is invoked: it returns a response with a text, it
\* returns a response whose text() throws, or the call throws.
ServiceGenerateContent(i) ==
    /\ gens[i].pc = "generateContent"
    /\ \/ \E t \in Texts :
             gens' = [gens EXCEPT ![i].pc = "afterGenerateContent",
                                  ![i].result = "ok", ![i].text = t,
                                  ![i].calls = @ + 1]
       \/ \E e \in Errors, how \in {"blocked", "threw"} :
             gens' = [gens EXCEPT ![i].pc = "afterGenerateContent",
                                  ![i].result = how, ![i].error = e,
                                  ![i].calls = @ + 1]
    /\ UNCHANGED <<uploads, saves, lists, favorites, cookbooks, blobs, clock,
                   rejectAtLimit>>

ResumeAfterGenerateContent(i) ==
    /\ gens[i].pc = "afterGenerateContent"
    /\ gens' = [gens EXCEPT ![i] = AfterGenerateContent(gens[i])]
    /\ UNCHANGED <<uploads, saves, lists, favorites, cookbooks, blobs, clock,
                   rejectAtLimit>>

GenerateSteps ==
    \E i \in DOMAIN gens :
        ServiceGenerateContent(i) \/ ResumeAfterGenerateContent(i)

NextGenerate == PostGeneratePlan(MaxGens, Len(gens)) \/ GenerateSteps

\* Only POST /generate-plan requests arrive.
SpecGenerate == InitNoUpload /\ [][NextGenerate]_vars

---------------------------------------------------------------------------
(* The server: requests on all five endpoints.                             *)

Arrived == Len(uploads) + Len(saves) + Len(lists) + Len(gens)

Next ==
    \/ UploadCookbook(MaxReqs, Arrived)
    \/ PostFavorites(MaxReqs, Arrived)
    \/ GetList("favorites", MaxReqs, Arrived)
    \/ GetList("cookbooks", MaxReqs, Arrived)
    \/ PostGeneratePlan(MaxReqs, Arrived)
    \/ UploadSteps
    \/ SaveSteps
    \/ ListSteps
    \/ GenerateSteps
    \/ Tick

Spec == Init /\ [][Next]_vars

---------------------------------------------------------------------------
(* POST /upload-cookbook: the claims.                                      *)

\* The upload handler was called for the request and found a file.
HasFile(u) == u.handler /\ u.file # NoFile

\* The request was answered with the handler's success envelope.
UploadSucceeded(u) == Answered(u) /\ u.resp.status = 200

\* The objects stored at a path, the documents naming a path.
BlobsAt(path) == {b \in blobs : b.fullPath = path}
RecordsOf(path) == {d \in cookbooks : d.data.storagePath = path}

\* The documents addDoc wrote for upload i.
DocsBy(i) == {d \in cookbooks : d.id = AutoId("cookbooks", i)}

\* C1: every record of "cookbooks" names an object that the upload which
\* wrote the record had stored before it called addDoc, and an upload whose
\* uploadBytes failed writes no record.
C1_BlobBeforeRecord ==
    /\ \A d \in cookbooks :
          /\ BlobsAt(d.data.storagePath) # {}
          /\ \E i \in DOMAIN uploads :
                /\ d \in DocsBy(i)
                /\ uploads[i].blobWrites = 1
                /\ d.data.storagePath = uploads[i].storagePath
    /\ \A i \in DOMAIN uploads :
          /\ (uploads[i].pc \in {"addDoc", "afterAddDoc"} \/ uploads[i].docWrites > 0)
                => uploads[i].blobWrites = 1
          /\ uploads[i].blobWrites = 0 => DocsBy(i) = {}

\* C1's case: one upload's uploadBytes failed and it was answered, another
\* upload's record is written.
C1_Witness ==
    /\ cookbooks # {}
    /\ \E i \in DOMAIN uploads :
          /\ HasFile(uploads[i]) /\ Answered(uploads[i])
          /\ uploads[i].blobWrites = 0 /\ uploads[i].resp.status = 500

\* C4 as stated: once every upload is answered, the K successful uploads
\* have left K objects and K records, paired one to one by storagePath.
C4_OneBlobPerSuccess ==
    LET ok == {i \in DOMAIN uploads : UploadSucceeded(uploads[i])} IN
    (\A i \in DOMAIN uploads : Answered(uploads[i]))
    => /\ \A i \in ok : Cardinality(RecordsOf(uploads[i].storagePath)) = 1
       /\ Cardinality(UNION {DocsBy(i) : i \in ok}) = Cardinality(ok)
       /\ Cardinality(UNION {BlobsAt(uploads[i].storagePath) : i \in ok})
             = Cardinality(ok)

\* C4 as amended: a successful upload has had exactly one object and exactly
\* one record written, the record naming the path the object was written at
\* and an object being stored there; K successful uploads have K records, and
\* as many objects as they have distinct paths.
C4_SuccessWritesBoth ==
    LET ok == {i \in DOMAIN uploads : UploadSucceeded(uploads[i])} IN
    /\ \A i \in ok :
          /\ uploads[i].blobWrites = 1 /\ uploads[i].docWrites = 1
          /\ Cardinality(DocsBy(i)) = 1
          /\ \A d \in DocsBy(i) : d.data.storagePath = uploads[i].storagePath
                                  /\ d.data.name = uploads[i].file.originalname
          /\ Cardinality(BlobsAt(uploads[i].storagePath)) = 1
    /\ Cardinality(UNION {DocsBy(i) : i \in ok}) = Cardinality(ok)
    /\ Cardinality(UNION {BlobsAt(uploads[i].storagePath) : i \in ok})
          = Cardinality({uploads[i].storagePath : i \in ok})

\* C4's case: two uploads have succeeded, under different paths.
C4_Witness ==
    \E i, j \in DOMAIN uploads :
        /\ UploadSucceeded(uploads[i]) /\ UploadSucceeded(uploads[j])
        /\ uploads[i].storagePath # uploads[j].storagePath

\* C5: two uploads of the same file name that read the same millisecond have
\* the same path, and once both have written there is one object at that path,
\* holding the bytes of one upload of that path.
C5_SameKeyOneBlob ==
    \A i, j \in DOMAIN uploads :
        (/\ i # j /\ HasFile(uploads[i]) /\ HasFile(uploads[j])
         /\ uploads[i].file.originalname = uploads[j].file.originalname
         /\ uploads[i].now = uploads[j].now)
        => /\ uploads[i].storagePath = uploads[j].storagePath
           /\ (uploads[i].blobWrites = 1 /\ uploads[j].blobWrites = 1)
                 => /\ Cardinality(BlobsAt(uploads[i].storagePath)) = 1
                    /\ \A b \in BlobsAt(uploads[i].storagePath) :
                          \E k \in DOMAIN uploads :
                              /\ uploads[k].storagePath = b.fullPath
                              /\ uploads[k].blobWrites = 1
                              /\ uploads[k].file.buffer = b.bytes

\* C5's case: two uploads with different bytes have both succeeded, their
\* two records name the same path, and the one object there holds the bytes
\* of the first of them only.
C5_Witness ==
    \E i, j \in DOMAIN uploads :
        /\ i # j
        /\ UploadSucceeded(uploads[i]) /\ UploadSucceeded(uploads[j])
        /\ uploads[i].file.buffer # uploads[j].file.buffer
        /\ \A d \in DocsBy(i) \cup DocsBy(j) : d.data.storagePath = uploads[i].storagePath
        /\ Cardinality(DocsBy(i) \cup DocsBy(j)) = 2
        /\ BlobsAt(uploads[i].storagePath)
              = {Blob(uploads[i].storagePath, uploads[i].file)}

\* uploadBytes succeeded, addDoc failed, and the request was answered.
RecordWriteFailed(u) == Answered(u) /\ u.blobWrites = 1 /\ u.docWrites = 0

\* C6 as stated: after a failed record write the request is answered 500, the
\* object is stored and no record names it.
C6_OrphanUnreferenced ==
    \A i \in DOMAIN uploads :
        RecordWriteFailed(uploads[i])
        => /\ uploads[i].resp = Failure(500, "Failed to upload cookbook.")
           /\ BlobsAt(uploads[i].storagePath) # {}
           /\ RecordsOf(uploads[i].storagePath) = {}

\* C6 as amended: after a failed record write the request is answered 500
\* with the fixed message and has no record of its own; a record names its
\* path only if another upload of the same path wrote it; an object once
\* written stays stored at its path; and when every request is answered, an
\* object no record names is one whose writers' record writes all failed.
C6_OrphanBlob ==
    /\ \A i \in DOMAIN uploads :
          /\ RecordWriteFailed(uploads[i])
             => /\ uploads[i].resp = Failure(500, "Failed to upload cookbook.")
                /\ uploads[i].logged \in Errors
                /\ DocsBy(i) = {}
                /\ \A d \in RecordsOf(uploads[i].storagePath) :
                      \E j \in DOMAIN uploads :
                          j # i /\ d \in DocsBy(j)
                          /\ uploads[j].storagePath = uploads[i].storagePath
          /\ uploads[i].blobWrites > 0 => BlobsAt(uploads[i].storagePath) # {}
    /\ (\A i \in DOMAIN uploads : Answered(uploads[i]))
       => \A b \in blobs :
             RecordsOf(b.fullPath) = {}
             => \A i \in DOMAIN uploads :
                   (uploads[i].storagePath = b.fullPath /\ uploads[i].blobWrites = 1)
                   => RecordWriteFailed(uploads[i])

\* C6's case: a record write has failed and the object is an orphan.
C6_Witness ==
    \E i \in DOMAIN uploads :
        /\ RecordWriteFailed(uploads[i])
        /\ BlobsAt(uploads[i].storagePath) # {}
        /\ RecordsOf(uploads[i].storagePath) = {}

CookbookFile(u) == u.part.fieldname = FieldName

---------------------------------------------------------------------------
(* POST /favorites and GET /favorites: the claims.                         *)

\* The documents addDoc wrote for save i.
FavoritesBy(i) == {d \in favorites : d.id = AutoId("favorites", i)}

\* C2: a save whose mealPlanMarkdown is absent or "" is answered 400 and
\* writes nothing; for any other value, once the store has written, exactly
\* one document holds that value and the answer is {success: true, id} with
\* that document's id.  (400 is the answer exactly when !mealPlanMarkdown.)
C2_SaveFavorite ==
    \A i \in DOMAIN saves :
        LET r == saves[i] IN
        /\ r.mealPlanMarkdown \in {Undefined, Str("")}
           => /\ Answered(r)
              /\ r.resp = Failure(400, "No meal plan content provided.")
              /\ r.docWrites = 0 /\ FavoritesBy(i) = {}
        /\ (r.mealPlanMarkdown \notin {Undefined, Str("")} /\ r.docWrites > 0)
           => /\ r.docWrites = 1
              /\ FavoritesBy(i) = {FavoriteDoc(r.id, r.createdAt, r.mealPlanMarkdown)}
              /\ Answered(r)
                 => r.resp = [status |-> 200, json |-> TRUE, success |-> TRUE,
                              id |-> AutoId("favorites", i)]
        /\ (Answered(r) /\ r.resp.status = 400) <=> Not(r.mealPlanMarkdown)
        /\ r.resp.status = 400 => r.docWrites = 0 /\ FavoritesBy(i) = {}

\* C2's case: a save of "" has been answered 400 and a save of a plan has
\* been answered with the id of its document.
C2_Witness ==
    \E i, j \in DOMAIN saves :
        /\ saves[i].mealPlanMarkdown = Str("") /\ saves[i].resp.status = 400
        /\ saves[j].mealPlanMarkdown = Str("# Plan A")
        /\ Answered(saves[j]) /\ saves[j].resp.status = 200
        /\ FavoritesBy(j) # {}

\* C3: a GET /favorites that read the collection when N saves had been
\* answered with success and none was waiting, and that is answered with
\* success, returns N entries: the ids those saves returned, each with the
\* content saved.  A document once written stays as written, and every
\* document of the collection is one a save wrote.
C3_ListAfterSaves ==
    /\ \A k \in DOMAIN lists :
          (/\ lists[k].col = "favorites" /\ Answered(lists[k])
           /\ lists[k].resp.status = 200 /\ lists[k].quiet)
          => /\ {<<e.id, e.data.content>> : e \in lists[k].resp.list}
                   = lists[k].saved
             /\ Cardinality(lists[k].resp.list) = Cardinality(lists[k].saved)
    /\ \A i \in DOMAIN saves :
          saves[i].docWrites > 0
          => FavoritesBy(i) = {FavoriteDoc(AutoId("favorites", i), saves[i].createdAt,
                                           saves[i].mealPlanMarkdown)}
    /\ \A d \in favorites :
          \E i \in DOMAIN saves : d \in FavoritesBy(i) /\ saves[i].docWrites = 1

\* C3's case: two saves were answered with success, and a GET that read
\* the collection after them is answered with their two entries.
C3_Witness ==
    \E k \in DOMAIN lists :
        /\ lists[k].col = "favorites" /\ Answered(lists[k])
        /\ lists[k].resp.status = 200 /\ lists[k].quiet
        /\ Cardinality(lists[k].saved) = 2
        /\ Cardinality(lists[k].resp.list) = 2

---------------------------------------------------------------------------
(* POST /generate-plan: the claim.                                         *)

\* C8: whatever the four fields are, the generation service is invoked once
\* for a request, never again after a failure, and the request is answered
\* {success: true, mealPlan: text} with the text the call produced, or 500
\* with the fixed message if the call (or reading its text) threw.
C8_GenerateOnce ==
    \A i \in DOMAIN gens :
        LET g == gens[i] IN
        /\ g.calls = IF g.pc = "generateContent" THEN 0 ELSE 1
        /\ g.resp.status # 400
        /\ Answered(g)
           => IF g.result = "ok"
              THEN /\ g.text \in Texts
                   /\ g.resp = [status |-> 200, json |-> TRUE, success |-> TRUE,
                                mealPlan |-> g.text]
              ELSE /\ g.resp = Failure(500, "Failed to generate meal plan.")
                   /\ g.logged = g.error /\ g.error \in Errors

\* C8's case: a request with four empty strings has been answered with the
\* generated text, and a request with no field at all has been answered 500
\* after its one call threw.
C8_Witness ==
    \E i, j \in DOMAIN gens :
        /\ gens[i].body = MealPlanRequest(Str(""), Str(""), Str(""), Str(""))
        /\ Answered(gens[i]) /\ gens[i].resp.status = 200
        /\ gens[i].resp.mealPlan = "# Plan A"
        /\ gens[j].body = MealPlanRequest(Undefined, Undefined, Undefined, Undefined)
        /\ Answered(gens[j]) /\ gens[j].resp.status = 500 /\ gens[j].calls = 1

---------------------------------------------------------------------------
(* All endpoints: the claim about failure responses.                       *)

\* The message of an endpoint's failure response, by status.
FixedMessage(endpoint, status) ==
    CASE endpoint = "generate-plan" -> "Failed to generate meal plan."
      [] endpoint = "save-favorite" /\ status = 400 -> "No meal plan content provided."
      [] endpoint = "save-favorite" -> "Failed to save favorite."
      [] endpoint = "favorites" -> "Failed to fetch favorites."
      [] endpoint = "cookbooks" -> "Failed to fetch cookbooks."
      [] endpoint = "upload-cookbook" /\ status = 400 -> "No file uploaded."
      [] endpoint = "upload-cookbook" -> "Failed to upload cookbook."

\* The request was answered with a failure.
Failed(r) == Answered(r) /\ r.resp.status # 200

\* A failure response is the envelope {success: false, message} with status
\* 400 or 500.
IsEnvelope(resp) ==
    /\ resp.json
    /\ resp.success = FALSE
    /\ resp.status \in {400, 500}

\* A handler's failure response: the envelope, with the endpoint's fixed
\* message; 500 exactly when the handler caught (and logged) an error.
HandlerFailure(r, endpoint) ==
    (Failed(r) /\ r.handler)
    => /\ IsEnvelope(r.resp)
       /\ r.resp = Failure(r.resp.status, FixedMessage(endpoint, r.resp.status))
       /\ r.resp.status = 500 <=> r.logged \in Errors

\* Two failure responses of one endpoint with one status are the same.
SameFailure(reqs) ==
    \A i, j \in DOMAIN reqs :
        (/\ Failed(reqs[i]) /\ Failed(reqs[j])
         /\ reqs[i].handler /\ reqs[j].handler
         /\ reqs[i].resp.status = reqs[j].resp.status)
        => reqs[i].resp = reqs[j].resp

\* C9 as stated: every failure response, on every endpoint, is the envelope.
C9_EveryFailureIsEnvelope ==
    /\ \A i \in DOMAIN gens : Failed(gens[i]) => IsEnvelope(gens[i].resp)
    /\ \A i \in DOMAIN saves : Failed(saves[i]) => IsEnvelope(saves[i].resp)
    /\ \A i \in DOMAIN lists : Failed(lists[i]) => IsEnvelope(lists[i].resp)
    /\ \A i \in DOMAIN uploads : Failed(uploads[i]) => IsEnvelope(uploads[i].resp)

\* C9 as amended: every failure response that a handler produces is the
\* envelope with status 400 or 500 and the endpoint's fixed message, whatever
\* error was caught: two failures of one endpoint with one status are the
\* same response.  (A request the multipart layer refuses is not answered by
\* a handler.)
C9_HandlerFailures ==
    /\ \A i \in DOMAIN gens : HandlerFailure(gens[i], "generate-plan")
    /\ \A i \in DOMAIN saves : HandlerFailure(saves[i], "save-favorite")
    /\ \A i \in DOMAIN lists : HandlerFailure(lists[i], lists[i].col)
    /\ \A i \in DOMAIN uploads : HandlerFailure(uploads[i], "upload-cookbook")
    /\ SameFailure(gens) /\ SameFailure(saves) /\ SameFailure(uploads)
    /\ \A i, j \in DOMAIN lists :
          (/\ Failed(lists[i]) /\ Failed(lists[j])
           /\ lists[i].col = lists[j].col)
          => lists[i].resp = lists[j].resp
    /\ \A i \in DOMAIN uploads :
          ~uploads[i].handler => uploads[i].resp.status = 500 /\ ~uploads[i].resp.json

\* C9's case: two requests of one endpoint caught different errors and were
\* answered with the same 500 response.
C9_Witness ==
    \E i, j \in DOMAIN gens :
        /\ Failed(gens[i]) /\ Failed(gens[j])
        /\ gens[i].logged # gens[j].logged
        /\ gens[i].resp = gens[j].resp
        /\ gens[i].resp.status = 500

=============================================================================
